---- MODULE Spec2Model ----
(***************************************************************************)
(* State machine of the CheckCarpark component                             *)
(* (src/src/components/CheckCarpark.jsx): the eleven useState cells, the   *)
(* three async handlers (handleSearch, checkAvailability,                  *)
(* handleRouteClick), handleSelectSuggestion and the auto-route effect.    *)
(*                                                                         *)
(* Every await of a handler is a suspension point: the handler's closure   *)
(* (the values it captured when it was called) is kept as a task record    *)
(* in a sequence of in-flight tasks, and the continuation after the await  *)
(* is an action of its own that consumes the task.  The state updates a    *)
(* handler makes between two suspension points are applied in one step     *)
(* (React batches them into one render), and the passive effect of         *)
(* lines 161-165 runs at the end of the step that changed one of its       *)
(* dependencies.                                                           *)
(*                                                                         *)
(* Strings the code inspects (location, userAddress, addresses) are        *)
(* sequences of one-character strings; messages are TLA+ strings.          *)
(***************************************************************************)
EXTENDS Integers, Sequences, FiniteSets, TLC

\* ---------------------------------------------------------------- bounds
\* At most this many handler calls are suspended at an await at a time
\* (availability fetches of handleSearch and of checkAvailability, and
\* handleRouteClick cycles, together).
MaxInFlight == 2

\* ------------------------------------------------------- JavaScript values
null == "null"
NoCoords == <<>>
EmptyMap == [k \in {} |-> null]

\* String.prototype.toLowerCase over the model's alphabet.
LowerChar(c) == IF c = "A" THEN "a" ELSE IF c = "B" THEN "b" ELSE c

toLowerCase(s) == [i \in 1..Len(s) |-> LowerChar(s[i])]

\* String.prototype.includes: t occurs in s as a contiguous substring
\* (the empty string occurs in every string).
includes(s, t) == \E i \in 0..(Len(s) - Len(t)) : SubSeq(s, i + 1, i + Len(t)) = t

RECURSIVE trimStart(_)
trimStart(s) == IF s # <<>> /\ Head(s) = " " THEN trimStart(Tail(s)) ELSE s

RECURSIVE trimEnd(_)
trimEnd(s) ==
    IF s # <<>> /\ s[Len(s)] = " " THEN trimEnd(SubSeq(s, 1, Len(s) - 1)) ELSE s

\* String.prototype.trim
trim(s) == trimEnd(trimStart(s))

RemoveAt(s, i) == SubSeq(s, 1, i - 1) \o SubSeq(s, i + 1, Len(s))

\* ------------------------------------------------------------ the catalog
\* carparkDetailsWithLatLng.json: the second address is a substring of the
\* first (case-insensitively), the fourth record carries no coordinates.
mapping ==
    << [car_park_no |-> "P1", address |-> <<"A", " ", "b">>, lat |-> 1, lng |-> 103],
       [car_park_no |-> "P2", address |-> <<"b">>, lat |-> 2, lng |-> 104],
       [car_park_no |-> "P3", address |-> <<"c">>, lat |-> 3, lng |-> 105],
       [car_park_no |-> "P4", address |-> <<"d">>] >>

Carparks == 1..Len(mapping)

\* Truthiness of a record's numeric property, as in !cp.lat: absent and 0
\* are falsy.
Truthy(cp, f) == f \in DOMAIN cp /\ cp[f] # 0

\* Texts a user types into the search box.
Texts == { <<>>, <<" ">>, <<"B">>, <<"c">>, <<"d">>, <<"z">> }

\* Texts a user types into the search box while Route cycles are followed:
\* one for each facility that can be selected.
RouteTexts == { <<"B">>, <<"c">> }

\* Texts a user types into the origin box (it is empty at first).
Addresses == { <<" ">>, <<"x">> }

\* filter comparing the address and the text as typed, without toLowerCase.
filter_caseSensitive(text) ==
    SelectSeq([i \in Carparks |-> i],
              LAMBDA i : includes(mapping[i].address, text))

\* mapping.filter(cp => cp.address.toLowerCase().includes(text.toLowerCase())),
\* as the sequence of catalog positions.
filter(text) ==
    SelectSeq([i \in Carparks |-> i],
              LAMBDA i : includes(toLowerCase(mapping[i].address), toLowerCase(text)))

\* mapping.find(...) with the same predicate: the first position, 0 for
\* undefined.
find(text) == IF filter(text) = <<>> THEN 0 ELSE Head(filter(text))

\* --------------------------------------------------- availability service
Info(n) == [lots_available |-> n]

\* response.data.items[0].carpark_data of two snapshots.
CarparkData ==
    { << [carpark_number |-> "P1", carpark_info |-> <<Info("5")>>],
         [carpark_number |-> "P2", carpark_info |-> <<>>] >>,
      << [carpark_number |-> "P1", carpark_info |-> <<Info("7"), Info("1")>>],
         [carpark_number |-> "P2", carpark_info |-> <<Info("0")>>],
         [carpark_number |-> "P3", carpark_info |-> <<Info("2")>>] >> }

\* carparkData.find(c => c.carpark_number === id): the position, 0 for
\* undefined.
findData(carparkData, id) ==
    LET hits == { i \in 1..Len(carparkData) : carparkData[i].carpark_number = id }
    IN IF hits = {} THEN 0 ELSE CHOOSE i \in hits : \A j \in hits : i <= j

\* found?.carpark_info[0]?.lots_available ?? 'N/A'
lotsOrNA(carparkData, id) ==
    LET i == findData(carparkData, id)
    IN IF i = 0 THEN "N/A"
       ELSE IF carparkData[i].carpark_info = <<>> THEN "N/A"
       ELSE carparkData[i].carpark_info[1].lots_available

\* availabilityMap with an entry only for the ids found in the response.
availabilityMap_foundOnly(filtered, carparkData) ==
    [id \in { mapping[filtered[k]].car_park_no : k \in 1..Len(filtered) }
              \cap { carparkData[c].carpark_number : c \in 1..Len(carparkData) }
        |-> lotsOrNA(carparkData, id)]

\* The availabilityMap built by the forEach of lines 44-48.
availabilityMap(filtered, carparkData) ==
    [id \in { mapping[filtered[k]].car_park_no : k \in 1..Len(filtered) }
        |-> lotsOrNA(carparkData, id)]

\* ------------------------------------------------------------------ state
VARIABLES
    location,             \* useState('')    line 13
    availability,         \* useState(null)  line 14
    errorMsg,             \* useState('')    line 15
    selectedCarpark,      \* useState(null)  line 16: a catalog position, 0 for null
    loading,              \* useState(false) line 17
    userAddress,          \* useState('')    line 18
    originCoords,         \* useState(null)  line 19
    routeCoords,          \* useState([])    line 20
    showRoute,            \* useState(false) line 21
    results,              \* useState([])    line 22: catalog positions
    slotAvailabilityMap,  \* useState({})    line 23
    searchTasks,          \* handleSearch calls suspended at line 41
    checkTasks,           \* checkAvailability calls suspended at line 78
    routeTasks,           \* handleRouteClick calls suspended at line 131/141 or 145
    lastSearch            \* history: outcome of the latest keystroke's fetch

vars == << location, availability, errorMsg, selectedCarpark, loading, userAddress,
           originCoords, routeCoords, showRoute, results, slotAvailabilityMap,
           searchTasks, checkTasks, routeTasks, lastSearch >>

searchVars == << location, results, slotAvailabilityMap, searchTasks, lastSearch >>
checkVars == << availability, selectedCarpark, checkTasks >>
routeVars == << originCoords, routeCoords, showRoute, routeTasks >>

Init ==
    /\ location = <<>>
    /\ availability = null
    /\ errorMsg = ""
    /\ selectedCarpark = 0
    /\ loading = FALSE
    /\ userAddress = <<>>
    /\ originCoords = NoCoords
    /\ routeCoords = <<>>
    /\ showRoute = FALSE
    /\ results = <<>>
    /\ slotAvailabilityMap = EmptyMap
    /\ searchTasks = <<>>
    /\ checkTasks = <<>>
    /\ routeTasks = <<>>
    /\ lastSearch = [state |-> "none"]

\* The number of suspended handler calls.
InFlight == Len(searchTasks) + Len(checkTasks) + Len(routeTasks)

\* A new call supersedes the earlier ones of its concern.
Superseded(tasks) == [i \in 1..Len(tasks) |-> [tasks[i] EXCEPT !.latest = FALSE]]

\* ----------------------------------------------------------------- Search
\* handleSearch, lines 25-41: the synchronous part up to the await.  It is
\* the change handler of the search box, so input differs from the text the
\* box shows.
handleSearch(input) ==
    /\ input # location
    /\ location' = input
    /\ IF trim(input) = <<>>
       THEN /\ results' = <<>>
            /\ slotAvailabilityMap' = EmptyMap
            /\ searchTasks' = Superseded(searchTasks)
            /\ lastSearch' = [state |-> "none"]
       ELSE /\ InFlight < MaxInFlight
            /\ results' = filter(input)
            /\ searchTasks' = Append(Superseded(searchTasks),
                                     [input |-> input, filtered |-> filter(input),
                                      latest |-> TRUE])
            /\ lastSearch' = [state |-> "pending", input |-> input]
            /\ UNCHANGED slotAvailabilityMap
    /\ UNCHANGED << availability, errorMsg, selectedCarpark, loading, userAddress >>
    /\ UNCHANGED routeVars
    /\ UNCHANGED checkTasks

\* handleSearch, lines 42-50: the fetch resolved with carparkData.
searchFetched(i, carparkData) ==
    /\ i \in 1..Len(searchTasks)
    /\ slotAvailabilityMap' = availabilityMap(searchTasks[i].filtered, carparkData)
    /\ searchTasks' = RemoveAt(searchTasks, i)
    /\ lastSearch' = IF searchTasks[i].latest
                     THEN [state |-> "ok", input |-> searchTasks[i].input,
                           map |-> slotAvailabilityMap']
                     ELSE lastSearch
    /\ UNCHANGED << location, results, availability, errorMsg, selectedCarpark,
                    loading, userAddress, checkTasks >>
    /\ UNCHANGED routeVars

\* handleSearch, lines 51-54: the fetch (or the parse of its body) threw.
searchFailed(i) ==
    /\ i \in 1..Len(searchTasks)
    /\ slotAvailabilityMap' = EmptyMap
    /\ searchTasks' = RemoveAt(searchTasks, i)
    /\ lastSearch' = IF searchTasks[i].latest THEN [state |-> "failed"] ELSE lastSearch
    /\ UNCHANGED << location, results, availability, errorMsg, selectedCarpark,
                    loading, userAddress, checkTasks >>
    /\ UNCHANGED routeVars

\* ------------------------------------------------------------------ Route
\* Device positions, geocoder bodies (response.data) and routing bodies
\* (response.data.routes) the services can answer with, and the messages
\* of the errors axios can reject with.
Positions == { [latitude |-> 1, longitude |-> 103] }

GeocodeData == { <<>>, << [lat |-> <<"2">>, lon |-> <<"9">>], [lat |-> <<"4">>, lon |-> <<"8">>] >> }

Routes ==
    { <<>>,
      << [geometry |-> [coordinates |-> << <<103, 1>>, <<104, 2>> >>]] >> }

ErrorMessages == { "Network Error", "" }

DigitValue(c) ==
    CASE c = "0" -> 0 [] c = "1" -> 1 [] c = "2" -> 2 [] c = "3" -> 3 [] c = "4" -> 4
      [] c = "5" -> 5 [] c = "6" -> 6 [] c = "7" -> 7 [] c = "8" -> 8 [] c = "9" -> 9

\* parseFloat on a string of decimal digits.
RECURSIVE parseFloat(_)
parseFloat(s) ==
    IF Len(s) = 1 THEN DigitValue(s[1])
    ELSE 10 * parseFloat(SubSeq(s, 1, Len(s) - 1)) + DigitValue(s[Len(s)])

\* geocodeAddress, lines 103-105: the first candidate as [lat, lon].
geocodeOrigin(data) == << parseFloat(data[1].lat), parseFloat(data[1].lon) >>

\* fetchRoute, lines 114-117: [lon, lat] pairs of the first route swapped to
\* [lat, lon]; the empty path when there is no route.
fetchRoute(routes) ==
    IF Len(routes) > 0
    THEN LET coords == routes[1].geometry.coordinates
         IN [k \in 1..Len(coords) |-> << coords[k][2], coords[k][1] >>]
    ELSE <<>>

\* checkAvailability, line 69: the guard, on the carpark mapping.find gave.
checkGuardFails(findCarpark) ==
    \/ findCarpark = 0
    \/ ~Truthy(mapping[findCarpark], "lat")
    \/ ~Truthy(mapping[findCarpark], "lng")

\* handleRouteClick, line 121: the guard, on the carpark the closure holds.
routeGuardFails(carpark) ==
    \/ carpark = 0
    \/ ~Truthy(mapping[carpark], "lat")
    \/ ~Truthy(mapping[carpark], "lng")

\* routeBegin with setLoading(true) moved above the guard of line 121.
routeBegin_loadingFirst(carpark, address, err, load) ==
    IF routeGuardFails(carpark)
    THEN /\ errorMsg' = "Please check carpark availability first."
         /\ loading' = TRUE
         /\ UNCHANGED routeTasks
    ELSE /\ InFlight < MaxInFlight
         /\ errorMsg' = err
         /\ loading' = TRUE
         /\ routeTasks' = Append(Superseded(routeTasks),
                                 [carpark |-> carpark, address |-> address,
                                  phase |-> "resolving", origin |-> NoCoords,
                                  latest |-> TRUE])

\* handleRouteClick, lines 121-131/141: the synchronous part of a call whose
\* closure holds (carpark, address), made while errorMsg and loading are
\* about to be err and load.
routeBegin(carpark, address, err, load) ==
    IF routeGuardFails(carpark)
    THEN /\ errorMsg' = "Please check carpark availability first."
         /\ loading' = load
         /\ UNCHANGED routeTasks
    ELSE /\ InFlight < MaxInFlight
         /\ errorMsg' = err
         /\ loading' = TRUE
         /\ routeTasks' = Append(Superseded(routeTasks),
                                 [carpark |-> carpark, address |-> address,
                                  phase |-> "resolving", origin |-> NoCoords,
                                  latest |-> TRUE])

\* autoRoute with selectedCarpark as the effect's only dependency.
autoRoute_carparkOnly(carpark, address, err, load) ==
    IF /\ carpark # selectedCarpark
       /\ trim(address) # <<>>
       /\ carpark # 0
    THEN routeBegin(carpark, address, err, load)
    ELSE /\ errorMsg' = err
         /\ loading' = load
         /\ UNCHANGED routeTasks

\* The effect of lines 161-165, run after a render in which userAddress
\* becomes address and selectedCarpark becomes carpark: it runs when one of
\* its dependencies changed, and calls handleRouteClick when both are set.
autoRoute(carpark, address, err, load) ==
    IF /\ (address # userAddress \/ carpark # selectedCarpark)
       /\ trim(address) # <<>>
       /\ carpark # 0
    THEN routeBegin(carpark, address, err, load)
    ELSE /\ errorMsg' = err
         /\ loading' = load
         /\ UNCHANGED routeTasks

\* The explicit route request (onRoute / handleRouteClick props).
handleRouteClick ==
    /\ routeBegin(selectedCarpark, userAddress, errorMsg, loading)
    /\ UNCHANGED << userAddress, originCoords, routeCoords, showRoute >>
    /\ UNCHANGED searchVars
    /\ UNCHANGED checkVars

\* setUserAddress(address), from the origin box.
setUserAddress(address) ==
    /\ address # userAddress
    /\ userAddress' = address
    /\ autoRoute(selectedCarpark, address, errorMsg, loading)
    /\ UNCHANGED << originCoords, routeCoords, showRoute >>
    /\ UNCHANGED searchVars
    /\ UNCHANGED checkVars

\* routeCatch showing err.message alone, without the fallback text of line 153.
routeCatch_noFallback(i, message) ==
    /\ errorMsg' = message
    /\ showRoute' = FALSE
    /\ loading' = FALSE
    /\ routeTasks' = RemoveAt(routeTasks, i)
    /\ UNCHANGED << originCoords, routeCoords >>

\* routeCatch without the finally of lines 155-157.
routeCatch_noFinally(i, message) ==
    /\ errorMsg' = IF message # "" THEN message
                   ELSE "Failed to calculate route. Please check your address or location access."
    /\ showRoute' = FALSE
    /\ loading' = loading
    /\ routeTasks' = RemoveAt(routeTasks, i)
    /\ UNCHANGED << originCoords, routeCoords >>

\* handleRouteClick, lines 151-157: catch and finally of cycle i.
routeCatch(i, message) ==
    /\ errorMsg' = IF message # "" THEN message
                   ELSE "Failed to calculate route. Please check your address or location access."
    /\ showRoute' = FALSE
    /\ loading' = FALSE
    /\ routeTasks' = RemoveAt(routeTasks, i)
    /\ UNCHANGED << originCoords, routeCoords >>

\* Resolving: lines 131-139, device geolocation answered.
geolocated(i, position) ==
    /\ i \in 1..Len(routeTasks)
    /\ routeTasks[i].phase = "resolving"
    /\ trim(routeTasks[i].address) = <<>>
    /\ routeTasks' = [routeTasks EXCEPT ![i].phase = "routing",
                                        ![i].origin = << position.latitude, position.longitude >>]
    /\ UNCHANGED << errorMsg, loading, userAddress, originCoords, routeCoords,
                    showRoute >>
    /\ UNCHANGED searchVars
    /\ UNCHANGED checkVars

\* Resolving: lines 134-137, device geolocation refused.
geolocationDenied(i) ==
    /\ i \in 1..Len(routeTasks)
    /\ routeTasks[i].phase = "resolving"
    /\ trim(routeTasks[i].address) = <<>>
    /\ routeCatch(i, "Failed to get current location. Please allow location access.")
    /\ UNCHANGED userAddress
    /\ UNCHANGED searchVars
    /\ UNCHANGED checkVars

\* Resolving: lines 100-109 and 141, the geocoder answered with data.
geocoded(i, data) ==
    /\ i \in 1..Len(routeTasks)
    /\ routeTasks[i].phase = "resolving"
    /\ trim(routeTasks[i].address) # <<>>
    /\ IF Len(data) > 0
       THEN /\ routeTasks' = [routeTasks EXCEPT ![i].phase = "routing",
                                                ![i].origin = geocodeOrigin(data)]
            /\ UNCHANGED << errorMsg, loading, originCoords, routeCoords, showRoute >>
       ELSE routeCatch(i, "Address not found")
    /\ UNCHANGED userAddress
    /\ UNCHANGED searchVars
    /\ UNCHANGED checkVars

\* Resolving: line 102, the geocoding call rejected.
geocodeFailed(i, message) ==
    /\ i \in 1..Len(routeTasks)
    /\ routeTasks[i].phase = "resolving"
    /\ trim(routeTasks[i].address) # <<>>
    /\ routeCatch(i, message)
    /\ UNCHANGED userAddress
    /\ UNCHANGED searchVars
    /\ UNCHANGED checkVars

\* routeFetched without setOriginCoords(origin).
routeFetched_noOrigin(i, routes) ==
    /\ i \in 1..Len(routeTasks)
    /\ routeTasks[i].phase = "routing"
    /\ routeCoords' = fetchRoute(routes)
    /\ showRoute' = TRUE
    /\ errorMsg' = ""
    /\ loading' = FALSE
    /\ routeTasks' = RemoveAt(routeTasks, i)
    /\ UNCHANGED << userAddress, originCoords >>
    /\ UNCHANGED searchVars
    /\ UNCHANGED checkVars

\* routeFetched with fetchRoute throwing when the service reports no route.
routeFetched_throwOnEmpty(i, routes) ==
    /\ i \in 1..Len(routeTasks)
    /\ routeTasks[i].phase = "routing"
    /\ IF Len(routes) = 0
       THEN routeCatch(i, "No route found")
       ELSE /\ originCoords' = routeTasks[i].origin
            /\ routeCoords' = fetchRoute(routes)
            /\ showRoute' = TRUE
            /\ errorMsg' = ""
            /\ loading' = FALSE
            /\ routeTasks' = RemoveAt(routeTasks, i)
    /\ UNCHANGED userAddress
    /\ UNCHANGED searchVars
    /\ UNCHANGED checkVars

\* Routing: lines 145-150 and 155-157, the routing service answered.
routeFetched(i, routes) ==
    /\ i \in 1..Len(routeTasks)
    /\ routeTasks[i].phase = "routing"
    /\ originCoords' = routeTasks[i].origin
    /\ routeCoords' = fetchRoute(routes)
    /\ showRoute' = TRUE
    /\ errorMsg' = ""
    /\ loading' = FALSE
    /\ routeTasks' = RemoveAt(routeTasks, i)
    /\ UNCHANGED userAddress
    /\ UNCHANGED searchVars
    /\ UNCHANGED checkVars

\* Routing: line 113, the routing call rejected.
routeFailed(i, message) ==
    /\ i \in 1..Len(routeTasks)
    /\ routeTasks[i].phase = "routing"
    /\ routeCatch(i, message)
    /\ UNCHANGED userAddress
    /\ UNCHANGED searchVars
    /\ UNCHANGED checkVars

\* ------------------------------------------------------------------ Check
\* checkAvailability with setLoading(true) moved above the guard of line 69.
checkAvailability_loadingFirst(manualAddress) ==
    LET searchLocation == IF manualAddress # <<>> THEN manualAddress ELSE location
        findCarpark == find(searchLocation)
    IN /\ IF checkGuardFails(findCarpark)
          THEN /\ errorMsg' = "Location not found in mapping."
               /\ availability' = null
               /\ selectedCarpark' = 0
               /\ checkTasks' = Superseded(checkTasks)
               /\ loading' = TRUE
          ELSE /\ InFlight < MaxInFlight
               /\ loading' = TRUE
               /\ checkTasks' = Append(Superseded(checkTasks),
                                       [findCarpark |-> findCarpark, latest |-> TRUE])
               /\ UNCHANGED << errorMsg, availability, selectedCarpark >>
       /\ UNCHANGED << userAddress >>
       /\ UNCHANGED routeVars

\* checkAvailability, lines 63-78: the synchronous part up to the await.
\* manualAddress is <<>> when the caller passes none.  Clearing
\* selectedCarpark leaves the effect of lines 161-165 without a carpark, so
\* no Route cycle starts here.
checkAvailability(manualAddress) ==
    LET searchLocation == IF manualAddress # <<>> THEN manualAddress ELSE location
        findCarpark == find(searchLocation)
    IN /\ IF checkGuardFails(findCarpark)
          THEN /\ errorMsg' = "Location not found in mapping."
               /\ availability' = null
               /\ selectedCarpark' = 0
               /\ checkTasks' = Superseded(checkTasks)
               /\ UNCHANGED loading
          ELSE /\ InFlight < MaxInFlight
               /\ loading' = TRUE
               /\ checkTasks' = Append(Superseded(checkTasks),
                                       [findCarpark |-> findCarpark, latest |-> TRUE])
               /\ UNCHANGED << errorMsg, availability, selectedCarpark >>
       /\ UNCHANGED << userAddress >>
       /\ UNCHANGED routeVars

\* The search box submitted (onCheck): checkAvailability with no address.
submitCheck ==
    /\ checkAvailability(<<>>)
    /\ UNCHANGED searchVars

\* handleSelectSuggestion, lines 57-61, on the k-th displayed suggestion.
handleSelectSuggestion(k) ==
    /\ k \in 1..Len(results)
    /\ location' = mapping[results[k]].address
    /\ results' = <<>>
    /\ checkAvailability(mapping[results[k]].address)
    /\ UNCHANGED << slotAvailabilityMap, searchTasks, lastSearch >>

\* checkFetched without setErrorMsg('') on success.
checkFetched_keepError(i, carparkData) ==
    /\ i \in 1..Len(checkTasks)
    /\ LET findCarpark == checkTasks[i].findCarpark
           c == findData(carparkData, mapping[findCarpark].car_park_no)
           ok == c # 0 /\ Len(carparkData[c].carpark_info) > 0
       IN /\ availability' = IF ok THEN carparkData[c].carpark_info[1].lots_available
                             ELSE null
          /\ selectedCarpark' = IF ok THEN findCarpark ELSE 0
          /\ autoRoute(selectedCarpark', userAddress,
                       IF ok THEN errorMsg ELSE "No availability data for this carpark.",
                       FALSE)
    /\ checkTasks' = RemoveAt(checkTasks, i)
    /\ UNCHANGED << userAddress, originCoords, routeCoords, showRoute >>
    /\ UNCHANGED searchVars

\* checkAvailability, lines 79-90 and 95-97: the fetch resolved.
checkFetched(i, carparkData) ==
    /\ i \in 1..Len(checkTasks)
    /\ LET findCarpark == checkTasks[i].findCarpark
           c == findData(carparkData, mapping[findCarpark].car_park_no)
           ok == c # 0 /\ Len(carparkData[c].carpark_info) > 0
       IN /\ availability' = IF ok THEN carparkData[c].carpark_info[1].lots_available
                             ELSE null
          /\ selectedCarpark' = IF ok THEN findCarpark ELSE 0
          /\ autoRoute(selectedCarpark', userAddress,
                       IF ok THEN "" ELSE "No availability data for this carpark.",
                       FALSE)
    /\ checkTasks' = RemoveAt(checkTasks, i)
    /\ UNCHANGED << userAddress, originCoords, routeCoords, showRoute >>
    /\ UNCHANGED searchVars

\* checkFailed without setAvailability(null).
checkFailed_keepAvailability(i) ==
    /\ i \in 1..Len(checkTasks)
    /\ errorMsg' = "Failed to fetch data."
    /\ selectedCarpark' = 0
    /\ loading' = FALSE
    /\ checkTasks' = RemoveAt(checkTasks, i)
    /\ UNCHANGED << userAddress, availability >>
    /\ UNCHANGED routeVars
    /\ UNCHANGED searchVars

\* checkAvailability, lines 91-97: the fetch (or the parse of its body) threw.
checkFailed(i) ==
    /\ i \in 1..Len(checkTasks)
    /\ errorMsg' = "Failed to fetch data."
    /\ availability' = null
    /\ selectedCarpark' = 0
    /\ loading' = FALSE
    /\ checkTasks' = RemoveAt(checkTasks, i)
    /\ UNCHANGED << userAddress >>
    /\ UNCHANGED routeVars
    /\ UNCHANGED searchVars

\* searchAndFail with the catch of lines 51-54 reporting the failure in
\* errorMsg, as the catch of checkAvailability does.
searchAndFail_alert(input) ==
    /\ input # location
    /\ location' = input
    /\ results' = IF trim(input) = <<>> THEN <<>> ELSE filter(input)
    /\ slotAvailabilityMap' = EmptyMap
    /\ searchTasks' = Superseded(searchTasks)
    /\ lastSearch' = IF trim(input) = <<>> THEN [state |-> "none"]
                     ELSE [state |-> "failed"]
    /\ errorMsg' = IF trim(input) = <<>> THEN errorMsg ELSE "Failed to fetch data."
    /\ UNCHANGED << availability, selectedCarpark, loading, userAddress, checkTasks >>
    /\ UNCHANGED routeVars

\* handleSearch(input) followed at once by the failure of its fetch (lines
\* 25-38, then 51-54): the text and the suggestions change, the map is
\* emptied and no fetch stays in flight.
searchAndFail(input) ==
    /\ input # location
    /\ location' = input
    /\ results' = IF trim(input) = <<>> THEN <<>> ELSE filter(input)
    /\ slotAvailabilityMap' = EmptyMap
    /\ searchTasks' = Superseded(searchTasks)
    /\ lastSearch' = IF trim(input) = <<>> THEN [state |-> "none"]
                     ELSE [state |-> "failed"]
    /\ UNCHANGED << availability, errorMsg, selectedCarpark, loading, userAddress,
                    checkTasks >>
    /\ UNCHANGED routeVars

\* ---------------------------------------------------------- specifications
SearchActions ==
    \/ \E input \in Texts : handleSearch(input)
    \/ \E i \in 1..MaxInFlight, d \in CarparkData : searchFetched(i, d)
    \/ \E i \in 1..MaxInFlight : searchFailed(i)

CheckActions ==
    \/ \E k \in Carparks : handleSelectSuggestion(k)
    \/ submitCheck
    \/ \E i \in 1..MaxInFlight, d \in CarparkData : checkFetched(i, d)
    \/ \E i \in 1..MaxInFlight : checkFailed(i)

RouteActions ==
    \/ \E address \in Addresses : setUserAddress(address)
    \/ handleRouteClick
    \/ \E i \in 1..MaxInFlight, p \in Positions : geolocated(i, p)
    \/ \E i \in 1..MaxInFlight : geolocationDenied(i)
    \/ \E i \in 1..MaxInFlight, d \in GeocodeData : geocoded(i, d)
    \/ \E i \in 1..MaxInFlight, m \in ErrorMessages : geocodeFailed(i, m)
    \/ \E i \in 1..MaxInFlight, r \in Routes : routeFetched(i, r)
    \/ \E i \in 1..MaxInFlight, m \in ErrorMessages : routeFailed(i, m)

\* The whole component.
Next == SearchActions \/ CheckActions \/ RouteActions

Spec == Init /\ [][Next]_vars

\* The Search and Check concerns, the origin box left empty: no Route cycle
\* starts (the effect needs a non-blank userAddress) and none is requested.
NextSearch == SearchActions \/ CheckActions

SpecSearch == Init /\ [][NextSearch]_vars

\* The Check and Route concerns.  They read the Search concern through
\* location and results only, and no Search action changes a variable of
\* theirs: every keystroke is taken together with the failure of its fetch,
\* which leaves the Search concern with no fetch in flight.
NextRoute ==
    \/ \E input \in RouteTexts : searchAndFail(input)
    \/ CheckActions
    \/ RouteActions

SpecRoute == Init /\ [][NextRoute]_vars

\* The awaited call of a suspended Check returns (lines 78-79): the fetch
\* resolves or rejects.
CheckReturns ==
    \E i \in 1..MaxInFlight :
       \/ \E d \in CarparkData : checkFetched(i, d)
       \/ checkFailed(i)

\* The awaited call of a suspended Route cycle returns (lines 132-146):
\* geolocation calls back, the geocoder or the router answers or fails.
RouteReturns ==
    \E i \in 1..MaxInFlight :
       \/ \E p \in Positions : geolocated(i, p)
       \/ geolocationDenied(i)
       \/ \E d \in GeocodeData : geocoded(i, d)
       \/ \E m \in ErrorMessages : geocodeFailed(i, m)
       \/ \E r \in Routes : routeFetched(i, r)
       \/ \E m \in ErrorMessages : routeFailed(i, m)

\* The Check and Route concerns when every external call eventually
\* returns: a suspended call is resumed by the event loop once its promise
\* settles.
SpecRouteFair == SpecRoute /\ WF_vars(CheckReturns) /\ WF_vars(RouteReturns)

\* ----------------------------------------------------------------- claims
\* The car_park_no of the displayed suggestions.
ResultIds == { mapping[results[k]].car_park_no : k \in 1..Len(results) }

\* Task i of tasks is the one that completes in this step.
Completes(tasks, tasksNext, i) == i \in 1..Len(tasks) /\ tasksNext = RemoveAt(tasks, i)

\* No call of the concern that is still suspended is its latest one: the
\* latest-triggered call has completed.
LatestDone(tasks) == \A j \in 1..Len(tasks) : ~tasks[j].latest

\* C1: Search staleness.  Once every search fetch has completed, the latest
\* keystroke's text is the current query text and its fetch has succeeded,
\* slotAvailabilityMap is the map built from that fetch, keyed by exactly the
\* ids of the text's matches; a late result of an earlier keystroke is
\* discarded.
C1_SearchStaleness ==
    (/\ searchTasks = <<>>
     /\ lastSearch.state = "ok"
     /\ location = lastSearch.input)
    => /\ slotAvailabilityMap = lastSearch.map
       /\ DOMAIN slotAvailabilityMap
            = { mapping[filter(location)[k]].car_park_no : k \in 1..Len(filter(location)) }

\* C2: in every reachable state the keys of slotAvailabilityMap are ids of
\* the current matches (results).
C2_AvailabilityKeysWithinMatches == DOMAIN slotAvailabilityMap \subseteq ResultIds

\* C3: Route staleness.  A Route cycle that completes (with a result or a
\* failure) after a later-triggered cycle has completed is discarded: it
\* leaves originCoords, routeCoords, showRoute and errorMsg as they are.
C3_RouteStaleness ==
    [][\A i \in 1..Len(routeTasks) :
          (/\ Completes(routeTasks, routeTasks', i)
           /\ ~routeTasks[i].latest
           /\ LatestDone(routeTasks))
          => UNCHANGED << originCoords, routeCoords, showRoute, errorMsg >>]_vars

\* C4: loading is true whenever a Check is in Checking or a Route cycle is in
\* Resolving or Routing.
C4_BusyWhileInFlight == (checkTasks # <<>> \/ routeTasks # <<>>) => loading

\* C5 as stated: showRoute implies a non-empty routeCoords and a non-null
\* originCoords.
C5_RouteVisibleImpliesPath ==
    showRoute => (routeCoords # <<>> /\ originCoords # NoCoords)

\* C5 as amended: showRoute implies a non-null originCoords (routeCoords is
\* empty when the routing service reported no route).
C5_RouteVisibleImpliesOrigin == showRoute => originCoords # NoCoords

C5_Witness == showRoute /\ routeCoords = <<>> /\ originCoords # NoCoords

\* C6: a Route cycle whose origin was resolved and whose routing call answers
\* with zero routes ends Ready: routeCoords is empty, showRoute is true,
\* originCoords is the resolved origin and errorMsg is cleared.
C6_ZeroRoutesIsReady ==
    [][\A i \in 1..Len(routeTasks) :
          (routeTasks[i].phase = "routing" /\ routeFetched(i, <<>>))
          => /\ routeCoords' = <<>>
             /\ showRoute' = TRUE
             /\ originCoords' = routeTasks[i].origin
             /\ originCoords' # NoCoords
             /\ errorMsg' = ""]_vars

C6_Witness ==
    /\ showRoute /\ routeCoords = <<>> /\ errorMsg = ""
    /\ originCoords = << 2, 9 >>
    /\ routeTasks = <<>>

\* C7: availability is non-null only if selectedCarpark is non-null.
C7_AvailabilityOnlyWithSelection == availability # null => selectedCarpark # 0

C7_Witness == availability # null /\ selectedCarpark # 0 /\ checkTasks # <<>>

\* The text a Check with argument manualAddress looks up.
CheckedText(manualAddress) == IF manualAddress # <<>> THEN manualAddress ELSE location

\* No catalog address contains the text, or the first one that does lacks
\* lat or lng.
NotInMapping(text) ==
    \/ \A c \in Carparks : ~includes(toLowerCase(mapping[c].address), toLowerCase(text))
    \/ LET first == CHOOSE c \in Carparks :
                       /\ includes(toLowerCase(mapping[c].address), toLowerCase(text))
                       /\ \A b \in 1..(c - 1) :
                             ~includes(toLowerCase(mapping[b].address), toLowerCase(text))
       IN ~("lat" \in DOMAIN mapping[first]) \/ ~("lng" \in DOMAIN mapping[first])

\* The addresses checkAvailability is called with: none, or a suggestion's.
CheckArguments == { <<>> } \cup { mapping[c].address : c \in Carparks }

\* C8: a Check whose text is not in the mapping fails without a fetch:
\* errorMsg is "Location not found in mapping.", selectedCarpark and
\* availability are null, loading is not set and no fetch is started.
C8_NotFoundFailsWithoutFetch ==
    [][\A a \in CheckArguments :
          (checkAvailability(a) /\ NotInMapping(CheckedText(a)))
          => /\ errorMsg' = "Location not found in mapping."
             /\ selectedCarpark' = 0
             /\ availability' = null
             /\ loading' = loading
             /\ Len(checkTasks') = Len(checkTasks)
             /\ Len(routeTasks') = Len(routeTasks)]_vars

C8_Witness ==
    /\ errorMsg = "Location not found in mapping."
    /\ location = <<"d">>
    /\ selectedCarpark = 0 /\ availability = null /\ ~loading

\* The first info block's count of facility id in a snapshot, null when the
\* facility is absent or its info block is empty.
FirstBlock(carparkData, id) ==
    IF \E c \in 1..Len(carparkData) :
          carparkData[c].carpark_number = id /\ carparkData[c].carpark_info # <<>>
    THEN LET c == CHOOSE c \in 1..Len(carparkData) :
                     carparkData[c].carpark_number = id /\ carparkData[c].carpark_info # <<>>
         IN Head(carparkData[c].carpark_info).lots_available
    ELSE null

\* C9: when the availability fetch of a Check completes with the facility
\* and a non-empty info block, selectedCarpark is the facility, availability
\* the first block's count and errorMsg empty; when the facility is absent,
\* its info block empty or the fetch failed, errorMsg is non-empty and
\* selectedCarpark and availability are null.
C9_CheckCompletion ==
    [][\A i \in 1..Len(checkTasks) :
          /\ \A d \in CarparkData :
                checkFetched(i, d)
                => LET fc == checkTasks[i].findCarpark
                       n == FirstBlock(d, mapping[fc].car_park_no)
                   IN IF n # null
                      THEN /\ selectedCarpark' = fc
                           /\ availability' = n
                           /\ errorMsg' = ""
                      ELSE /\ selectedCarpark' = 0
                           /\ availability' = null
                           /\ errorMsg' # ""
          /\ checkFailed(i)
                => /\ selectedCarpark' = 0
                   /\ availability' = null
                   /\ errorMsg' # ""]_vars

C9_Witness ==
    /\ selectedCarpark = 3 /\ availability = "2" /\ errorMsg = ""
    /\ checkTasks = <<>>

\* C10: a Route request made while selectedCarpark is null (or lacks
\* coordinates) sets errorMsg to "Please check carpark availability first."
\* and starts no cycle: loading, originCoords, routeCoords, showRoute, the
\* selection and the in-flight cycles are unchanged.
C10_RouteNeedsSelection ==
    [][(/\ handleRouteClick
        /\ \/ selectedCarpark = 0
           \/ ~("lat" \in DOMAIN mapping[selectedCarpark])
           \/ ~("lng" \in DOMAIN mapping[selectedCarpark]))
       => /\ errorMsg' = "Please check carpark availability first."
          /\ UNCHANGED << loading, originCoords, routeCoords, showRoute, routeTasks,
                          selectedCarpark, availability >>]_vars

C10_Witness ==
    /\ errorMsg = "Please check carpark availability first."
    /\ selectedCarpark = 0
    /\ userAddress # <<>>

\* C11: a Route cycle that fails in Resolving or Routing (geolocation denied,
\* no geocoder candidate, geocoding or routing request failed) completes with
\* showRoute false and a non-empty errorMsg, and leaves selectedCarpark and
\* availability unchanged.
C11_RouteFailureKeepsSelection ==
    [][\A i \in 1..Len(routeTasks) :
          (\/ geolocationDenied(i)
           \/ geocoded(i, <<>>)
           \/ \E m \in ErrorMessages : geocodeFailed(i, m)
           \/ \E m \in ErrorMessages : routeFailed(i, m))
          => /\ showRoute' = FALSE
             /\ errorMsg' # ""
             /\ Len(routeTasks') = Len(routeTasks) - 1
             /\ UNCHANGED << selectedCarpark, availability >>]_vars

C11_Witness ==
    /\ ~showRoute
    /\ errorMsg = "Failed to calculate route. Please check your address or location access."
    /\ selectedCarpark # 0 /\ availability # null
    /\ routeCoords # <<>>
    /\ routeTasks = <<>>

\* This step starts a Route cycle for (carpark, address): a new cycle in
\* Resolving is in flight, it supersedes the earlier ones, loading is set.
StartsRoute(carpark, address) ==
    /\ Len(routeTasks') = Len(routeTasks) + 1
    /\ routeTasks'[Len(routeTasks')].carpark = carpark
    /\ routeTasks'[Len(routeTasks')].address = address
    /\ routeTasks'[Len(routeTasks')].phase = "resolving"
    /\ loading' = TRUE

\* C12 as stated: every change of userAddress made while a carpark is
\* selected starts a new Route cycle, whatever the new value, the empty and
\* the whitespace-only address included.
C12_AddressChangeStartsRoute ==
    [][(userAddress' # userAddress /\ selectedCarpark # 0)
       => StartsRoute(selectedCarpark, userAddress')]_vars

\* C12 as amended: a change of userAddress made while a carpark is selected
\* starts a new Route cycle for the new address when the new address is not
\* blank, and starts none (the cycles in flight, loading and errorMsg stay
\* as they are) when it is empty or whitespace-only.
C12_NonBlankAddressChangeStartsRoute ==
    [][(userAddress' # userAddress /\ selectedCarpark # 0)
       => IF trim(userAddress') # <<>>
          THEN StartsRoute(selectedCarpark, userAddress')
          ELSE UNCHANGED << routeTasks, loading, errorMsg >>]_vars

C12_Witness ==
    /\ userAddress = <<"x">>
    /\ selectedCarpark = 3
    /\ Len(routeTasks) = 1
    /\ routeTasks[1].carpark = 3 /\ routeTasks[1].address = <<"x">>
    /\ routeTasks[1].phase = "resolving"
    /\ checkTasks = <<>>
    /\ loading

\* A Route cycle completes with a failure in this step.
RouteFails(i) ==
    \/ geolocationDenied(i)
    \/ geocoded(i, <<>>)
    \/ \E m \in ErrorMessages : geocodeFailed(i, m)
    \/ \E m \in ErrorMessages : routeFailed(i, m)

\* A keystroke's availability fetch fails in this step.
SearchFails == \E input \in RouteTexts : searchAndFail(input)

\* C13 as stated: the failure of an asynchronous operation of any concern
\* (Search fetch, Check fetch, geolocation, geocoding, route fetch) gives a
\* non-empty errorMsg and resets the failed concern.
C13_EveryFailureReported ==
    [][/\ SearchFails => (errorMsg' # "" /\ slotAvailabilityMap' = EmptyMap)
       /\ \A i \in 1..Len(checkTasks) :
             checkFailed(i)
             => (errorMsg' # "" /\ selectedCarpark' = 0 /\ availability' = null)
       /\ \A i \in 1..Len(routeTasks) :
             RouteFails(i) => (errorMsg' # "" /\ showRoute' = FALSE)]_vars

\* C13 as amended: the failure of a Check fetch, of geolocation, of geocoding
\* or of a route fetch gives a non-empty errorMsg and resets the failed
\* concern; the failure of a Search fetch empties slotAvailabilityMap and
\* leaves errorMsg as it is.
C13_SearchFailureSilent ==
    [][/\ SearchFails => (errorMsg' = errorMsg /\ slotAvailabilityMap' = EmptyMap)
       /\ \A i \in 1..Len(checkTasks) :
             checkFailed(i)
             => (errorMsg' # "" /\ selectedCarpark' = 0 /\ availability' = null)
       /\ \A i \in 1..Len(routeTasks) :
             RouteFails(i) => (errorMsg' # "" /\ showRoute' = FALSE)]_vars

C13_Witness ==
    /\ lastSearch.state = "failed"
    /\ slotAvailabilityMap = EmptyMap
    /\ results # <<>>
    /\ errorMsg = ""
    /\ selectedCarpark # 0

\* A step taken by the user: a keystroke, a Check, a selected suggestion, a
\* change of the origin box or a Route request.
UserStep ==
    \/ \E input \in RouteTexts : searchAndFail(input)
    \/ submitCheck
    \/ \E k \in Carparks : handleSelectSuggestion(k)
    \/ \E address \in Addresses : setUserAddress(address)
    \/ handleRouteClick

\* No Check and no Route cycle is in flight.
Quiescent == checkTasks = <<>> /\ routeTasks = <<>>

\* C14: when every external call eventually returns, every started Check and
\* Route cycle eventually completes: once the user starts nothing new, the
\* component reaches and keeps a state with no operation in flight; and
\* whenever no operation is in flight, loading is false.
C14_Terminates ==
    /\ [](Quiescent => ~loading)
    /\ (<>[][~UserStep]_vars) => <>[](Quiescent /\ ~loading)

C14_Witness ==
    /\ Quiescent /\ ~loading
    /\ showRoute /\ routeCoords # <<>>
    /\ selectedCarpark = 3 /\ userAddress = <<"x">>

\* Sequence a has t as a contiguous subsequence.
Contains(a, t) ==
    \E k \in 1..(Len(a) - Len(t) + 1) : SubSeq(a, k, k + Len(t) - 1) = t

\* The carparks whose address contains text, case-insensitively.
Matching(text) ==
    { c \in Carparks : Contains(toLowerCase(mapping[c].address), toLowerCase(text)) }

\* seq lists exactly the carparks matching text, in catalog order.
IsMatchList(seq, text) ==
    /\ \A k \in 1..(Len(seq) - 1) : seq[k] < seq[k + 1]
    /\ { seq[k] : k \in 1..Len(seq) } = Matching(text)

\* C15 as stated: after a keystroke with a non-empty text, whitespace-only
\* text included, results are exactly the catalog entries whose address
\* contains the text case-insensitively, in catalog order; with the empty
\* text results are empty.
C15_MatchesOfEveryNonEmptyText ==
    [][\A input \in Texts :
          handleSearch(input)
          => IF input = <<>> THEN results' = <<>>
             ELSE IsMatchList(results', input)]_vars

\* C15 as amended: after a keystroke with a text that is not blank, results
\* are exactly the catalog entries whose address contains the text
\* case-insensitively, in catalog order; with an empty or whitespace-only
\* text results are empty.
C15_MatchesOfNonBlankText ==
    [][\A input \in Texts :
          handleSearch(input)
          => IF trim(input) = <<>> THEN results' = <<>>
             ELSE IsMatchList(results', input)]_vars

C15_Witness ==
    /\ location = <<"B">>
    /\ results = << 1, 2 >>
    /\ Len(searchTasks) = 1

\* The matches handleSearch computes for a text (lines 29-38).
searchMatches(text) == IF trim(text) = <<>> THEN <<>> ELSE filter(text)

\* C16: the carpark a Check looks up is none exactly when the Search of the
\* same text has no match, and is the first match otherwise; in particular a
\* Check with the empty text finds no carpark and fails with "Location not
\* found in mapping." without starting a fetch.
C16_FindAgreesWithSearch ==
    [][\A a \in CheckArguments :
          checkAvailability(a)
          => LET text == CheckedText(a)
             IN /\ (find(text) = 0) <=> (searchMatches(text) = <<>>)
                /\ find(text) # 0 => find(text) = Head(searchMatches(text))
                /\ text = <<>>
                      => /\ errorMsg' = "Location not found in mapping."
                         /\ selectedCarpark' = 0
                         /\ availability' = null
                         /\ Len(checkTasks') = Len(checkTasks)]_vars

\* C17: when the fetch of the latest keystroke succeeds and no other input
\* event intervened (the text and the suggestions are still that
\* keystroke's), slotAvailabilityMap gets exactly one entry per current
\* match: the count of the first info block when the carpark is in the
\* response with a non-empty info block, "N/A" when it is missing from the
\* response or its info block is empty.
C17_OneEntryPerMatch ==
    [][\A i \in 1..Len(searchTasks) : \A d \in CarparkData :
          (/\ searchFetched(i, d)
           /\ searchTasks[i].latest
           /\ location = searchTasks[i].input
           /\ results = searchTasks[i].filtered)
          => /\ DOMAIN slotAvailabilityMap' = ResultIds
             /\ \A id \in ResultIds :
                   slotAvailabilityMap'[id] = IF FirstBlock(d, id) # null
                                              THEN FirstBlock(d, id)
                                              ELSE "N/A"]_vars

C17_Witness ==
    /\ location = <<"c">>
    /\ results = << 3 >>
    /\ searchTasks = <<>>
    /\ lastSearch.state = "ok"
    /\ DOMAIN slotAvailabilityMap = { "P3" }
    /\ slotAvailabilityMap["P3"] = "N/A"

\* C18: whenever showRoute is true, selectedCarpark is non-null and the
\* route shown was computed for the selected carpark: a Route cycle shows
\* its route only when its destination is the carpark selected at its
\* completion, and a Check that changes or clears the selection does not
\* leave the earlier route shown.
C18_RouteShownIsForSelection ==
    /\ [](showRoute => selectedCarpark # 0)
    /\ [][/\ \A i \in 1..Len(routeTasks) : \A r \in Routes :
                routeFetched(i, r) => routeTasks[i].carpark = selectedCarpark'
          /\ (showRoute /\ selectedCarpark' # selectedCarpark) => ~showRoute']_vars

\* C19: selecting the suggestion of a catalog record never checks another
\* record: the Check it starts looks up that record itself, so that on
\* success selectedCarpark is the record selected, also when an earlier
\* record's address contains its address.
C19_SelectionChecksItself ==
    [][\A k \in 1..Len(results) :
          (handleSelectSuggestion(k) /\ Len(checkTasks') = Len(checkTasks) + 1)
          => checkTasks'[Len(checkTasks')].findCarpark = results[k]]_vars

\* C20: when Checks overlap, the outcome that stays is that of the Check
\* triggered last: a Check that completes after a later-triggered Check has
\* completed leaves selectedCarpark, availability and errorMsg as they are.
C20_LastCheckWins ==
    [][\A i \in 1..Len(checkTasks) :
          (/\ Completes(checkTasks, checkTasks', i)
           /\ ~checkTasks[i].latest
           /\ LatestDone(checkTasks))
          => UNCHANGED << selectedCarpark, availability, errorMsg >>]_vars
====
